---------------------------- MODULE Spec2Model ----------------------------
(***************************************************************************)
(* Model of Google_Trends_2.1.0.0.py: the range segmenter                  *)
(* (divide_timeframe_range), the fetch / zero-fill / rescale pipeline      *)
(* (get_data) and the granularity inference                                *)
(* (determine_overall_granularity_from_data).                              *)
(*                                                                         *)
(* Representation                                                          *)
(*   - a string is the sequence of the code points of its characters;     *)
(*   - a datetime is its proleptic Gregorian ordinal (0001-01-01 is 1),    *)
(*     a timedelta is a number of days;                                    *)
(*   - a DataFrame is [index |-> timestamps, cols |-> name -> column];     *)
(*     a timestamp is a day ordinal;                                       *)
(*   - a score is an IEEE 754 double, computed bit for bit: the int64     *)
(*     scores the source returns are exact doubles;                        *)
(*   - num_segments = 0 stands for both None and 0: the program only       *)
(*     tests its truth value before using it.                              *)
(***************************************************************************)
EXTENDS Integers, Sequences, FiniteSets

VARIABLES
    pc,                 \* position in the program
    caller,             \* "divide" | "get_data" | "granularity": the entry point
    start_date,         \* argument of divide_timeframe_range
    end_date,           \* argument of divide_timeframe_range
    granularity,        \* argument: "d", "w" or anything else
    num_segments,       \* argument: 0 is None
    start_date_obj,     \* local of divide_timeframe_range
    end_date_obj,       \* local of divide_timeframe_range
    total_days,         \* local of divide_timeframe_range
    delta,              \* local of divide_timeframe_range
    current_start,      \* local of divide_timeframe_range
    segments,           \* local of divide_timeframe_range, then of get_data
    trends_data,        \* local of get_data: list of DataFrames
    i,                  \* rescale loop variable of get_data
    combined_data,      \* local of get_data / argument of the inference
    overall_granularity,\* result of determine_overall_granularity_from_data
    raw,                \* history: each segment's frame as appended to trends_data
    missing             \* history: the keywords absent from each fetched result

vars == <<pc, caller, start_date, end_date, granularity, num_segments,
          start_date_obj, end_date_obj, total_days, delta, current_start,
          segments, trends_data, i, combined_data, overall_granularity,
          raw, missing>>

divideVars == <<start_date_obj, end_date_obj, total_days, delta, current_start>>
dataVars == <<trends_data, i, combined_data, overall_granularity, raw, missing>>
argVars == <<caller, start_date, end_date, granularity, num_segments>>

---------------------------------------------------------------------------
(* Bounds of the model                                                     *)

MaxSpan == 6
MaxNumSegments == 8
MaxRows == 2
MaxTotalRows == 3
MaxFrameCells == 2
MaxGaps == 3

(* Input samples                                                           *)

StartDays == {<<999, 12, 30>>, <<2015, 1, 1>>, <<2020, 2, 25>>, <<9999, 1, 1>>,
              <<9999, 12, 27>>}
LongSpans == {268, 269, 270, 271, 539, 540, 541, 1889, 1890, 1891, 3780, 3781}
GetDataSpans == {0, 270, 400, 541}
Granularities == {"d", "w", "m"}
Scores == {0, 7, 100}
GapValues == {0, 1, 2, 7, 8, 30}

\* the digits 0 of two other scripts
FullwidthZero == 65296
ArabicIndicZero == 1632

Min(a, b) == IF a < b THEN a ELSE b

---------------------------------------------------------------------------
(* datetime.strptime(s, '%Y-%m-%d') and datetime.strftime('%Y-%m-%d')      *)

IsLeap(y) == (y % 4 = 0) /\ ((y % 100 # 0) \/ (y % 400 = 0))

DaysInMonth(y, m) ==
    IF m = 2 THEN (IF IsLeap(y) THEN 29 ELSE 28)
    ELSE IF m \in {4, 6, 9, 11} THEN 30 ELSE 31

DaysBeforeYear(y) ==
    LET p == y - 1 IN p * 365 + (p \div 4) - (p \div 100) + (p \div 400)

\* the days of a common year before the first day of each month
DaysBeforeMonthTable ==
    <<0, 31, 59, 90, 120, 151, 181, 212, 243, 273, 304, 334>>

DaysBeforeMonth(y, m) ==
    DaysBeforeMonthTable[m] + (IF m > 2 /\ IsLeap(y) THEN 1 ELSE 0)

IsDate(y, m, d) ==
    /\ y \in 1..9999
    /\ m \in 1..12
    /\ d \in 1..DaysInMonth(y, m)

\* a string is the sequence of the code points of its characters
AsciiZero == 48
Hyphen == 45
Space == 32

\* the digits 0 of the decimal digit characters (Unicode category Nd, which
\* is what \d matches and int() converts): each is followed by its 1 to 9
DecimalZeros ==
    {48, 1632, 1776, 1984, 2406, 2534, 2662, 2790, 2918, 3046, 3174, 3302,
     3430, 3558, 3664, 3792, 3872, 4160, 4240, 6112, 6160, 6470, 6608,
     6784, 6800, 6992, 7088, 7232, 7248, 42528, 43216, 43264, 43472, 43504,
     43600, 44016, 65296, 66720, 68912, 69734, 69872, 69942, 70096, 70384,
     70736, 70864, 71248, 71360, 71472, 71904, 72016, 72784, 73040, 73120,
     92768, 92864, 93008, 120782, 120792, 120802, 120812, 120822, 123200,
     123632, 125264, 130032}

\* \d
IsDecimal(c) == \E z \in DecimalZeros : c \in z..(z + 9)
DecimalValue(c) == c - (CHOOSE z \in DecimalZeros : c \in z..(z + 9))

\* [lo-hi] over the ASCII digits
InRange(c, lo, hi) == c \in (AsciiZero + lo)..(AsciiZero + hi)

Pow10Table == <<1, 10, 100, 1000>>
Pow10(k) == Pow10Table[k + 1]

\* int() of a string of at most four decimal digits
Number(f) ==
    LET Place(k) == IF k <= Len(f)
                    THEN DecimalValue(f[k]) * Pow10(Len(f) - k) ELSE 0
    IN Place(1) + Place(2) + Place(3) + Place(4)

\* the decimal digits of n < 10000, zero-padded to width, in the digits that
\* start at zero
PaddedIn(n, width, zero) ==
    [k \in 1..width |-> zero + ((n \div Pow10(width - k)) % 10)]

\* the ASCII decimal digits of n < 10000, zero-padded to width
Padded(n, width) == PaddedIn(n, width, AsciiZero)

\* the ASCII decimal digits of n < 10000, without leading zeros
Decimal(n) ==
    Padded(n, IF n < 10 THEN 1 ELSE IF n < 100 THEN 2
                            ELSE IF n < 1000 THEN 3 ELSE 4)

\* the string 'YYYY-MM-DD' that the callers write for a date
Date(y, m, d) ==
    Padded(y, 4) \o <<Hyphen>> \o Padded(m, 2) \o <<Hyphen>> \o Padded(d, 2)

\* %Y: \d\d\d\d
MatchesYear(f) == Len(f) = 4 /\ \A k \in 1..4 : IsDecimal(f[k])

\* %m: 1[0-2] | 0[1-9] | [1-9]
MatchesMonth(f) ==
    \/ Len(f) = 2 /\ InRange(f[1], 1, 1) /\ InRange(f[2], 0, 2)
    \/ Len(f) = 2 /\ InRange(f[1], 0, 0) /\ InRange(f[2], 1, 9)
    \/ Len(f) = 1 /\ InRange(f[1], 1, 9)

\* %d: 3[0-1] | [1-2]\d | 0[1-9] | [1-9] | space [1-9]
MatchesDay(f) ==
    \/ Len(f) = 2 /\ InRange(f[1], 3, 3) /\ InRange(f[2], 0, 1)
    \/ Len(f) = 2 /\ InRange(f[1], 1, 2) /\ IsDecimal(f[2])
    \/ Len(f) = 2 /\ InRange(f[1], 0, 0) /\ InRange(f[2], 1, 9)
    \/ Len(f) = 1 /\ InRange(f[1], 1, 9)
    \/ Len(f) = 2 /\ f[1] = Space /\ InRange(f[2], 1, 9)

\* int() of a day field
DayNumber(f) == IF f[1] = Space THEN DecimalValue(f[2]) ELSE Number(f)

\* what strptime gives for a string that is not a date of the format
ValueError == 0

\* the ordinal of a calendar date
ymd2ord(y, m, d) == DaysBeforeYear(y) + DaysBeforeMonth(y, m) + d

\* datetime.strptime(s, '%Y-%m-%d'): the datetime (its day ordinal) of a
\* string of the format, ValueError for any other string
strptime(s) ==
    IF Len(s) < 8 \/ s[5] # Hyphen THEN ValueError
    ELSE LET mlen  == IF s[7] = Hyphen THEN 1 ELSE 2
             year  == SubSeq(s, 1, 4)
             month == SubSeq(s, 6, 5 + mlen)
             day   == SubSeq(s, 7 + mlen, Len(s))
         IN IF /\ s[6 + mlen] = Hyphen
               /\ MatchesYear(year)
               /\ MatchesMonth(month)
               /\ MatchesDay(day)
               /\ IsDate(Number(year), Number(month), DayNumber(day))
            THEN ymd2ord(Number(year), Number(month), DayNumber(day))
            ELSE ValueError

\* the calendar date <<year, month, day>> of an ordinal
ord2ymd(ord) ==
    LET n0   == ord - 1
        n400 == n0 \div 146097
        r400 == n0 % 146097
        n100 == r400 \div 36524
        r100 == r400 % 36524
        n4   == r100 \div 1461
        r4   == r100 % 1461
        n1   == r4 \div 365
        n    == r4 % 365
        year == n400 * 400 + 1 + n100 * 100 + n4 * 4 + n1
    IN  IF n1 = 4 \/ n100 = 4
        THEN <<year - 1, 12, 31>>
        ELSE LET guess == (n + 50) \div 32
                 month == IF DaysBeforeMonth(year, guess) > n
                          THEN guess - 1 ELSE guess
             IN <<year, month, n - DaysBeforeMonth(year, month) + 1>>

\* datetime.strftime('%Y-%m-%d'): the C library writes the year without
\* leading zeros, the month and the day with two digits
strftime(ord) ==
    LET t == ord2ymd(ord)
    IN Decimal(t[1]) \o <<Hyphen>> \o Padded(t[2], 2) \o <<Hyphen>>
       \o Padded(t[3], 2)

\* the string 'YYYY-MM-DD' of a datetime, as a caller writes an argument
DateOf(ord) == LET t == ord2ymd(ord) IN Date(t[1], t[2], t[3])

---------------------------------------------------------------------------
(* divide_timeframe_range                                                  *)

DailySegmentDays == 269
WeeklySegmentDays == 1889

\* where control goes when divide_timeframe_range returns segs
AfterDivide(segs) ==
    IF caller = "get_data"
    THEN (IF Len(segs) = 0 THEN "rescale" ELSE "fetch")
    ELSE "returned"

\* timedelta(days=total_days // num_segments)
SegmentDelta(days, n) == days \div n

\* datetime.max is 9999-12-31
MaxOrdinal == ymd2ord(9999, 12, 31)

\* the result of an addition that raises OverflowError: date value out of range
OutOfRange == MaxOrdinal + 1

\* datetime + timedelta(days): raises when the sum is after datetime.max
DatetimeAdd(dt, days) ==
    IF dt + days > MaxOrdinal THEN OutOfRange ELSE dt + days

\* current_end = min(current_start + delta, end_date_obj): the sum is taken,
\* and may raise, before min clamps it
CurrentEnd(cs, d, e) ==
    IF DatetimeAdd(cs, d) = OutOfRange THEN OutOfRange
    ELSE Min(DatetimeAdd(cs, d), e)

\* mutant: the next segment starts on the day the current one ends
NextStartSameDay(ce) == ce

\* current_start = current_end + timedelta(days=1)
NextStart(ce) == DatetimeAdd(ce, 1)

\* the loop condition: while current_start < end_date_obj
LoopCondition(cs, e) == cs < e

\* lines 55-70: parse the dates, choose delta, or return the whole range
DivideEntry ==
    /\ pc = "divide_entry"
    /\ IF strptime(start_date) = ValueError \/ strptime(end_date) = ValueError
       THEN /\ pc' = "value_error"
            /\ UNCHANGED <<divideVars, segments>>
       ELSE /\ start_date_obj' = strptime(start_date)
            /\ end_date_obj' = strptime(end_date)
            /\ current_start' = strptime(start_date)
            /\ total_days' = strptime(end_date) - strptime(start_date)
            /\ IF num_segments # 0
               THEN /\ delta' = SegmentDelta(total_days', num_segments)
                    /\ segments' = <<>>
                    /\ pc' = "divide_loop"
               ELSE IF granularity = "d"
               THEN /\ delta' = DailySegmentDays
                    /\ segments' = <<>>
                    /\ pc' = "divide_loop"
               ELSE IF granularity = "w"
               THEN /\ delta' = WeeklySegmentDays
                    /\ segments' = <<>>
                    /\ pc' = "divide_loop"
               ELSE /\ delta' = delta
                    /\ segments' = << <<start_date, end_date>> >>
                    /\ pc' = AfterDivide(segments')
    /\ UNCHANGED <<argVars, dataVars>>

\* lines 72-75: one iteration of the segmentation loop; an OverflowError at
\* line 73 or at line 75 ends the call (and its caller) with the exception
DivideLoop ==
    /\ pc = "divide_loop"
    /\ LoopCondition(current_start, end_date_obj)
    /\ LET current_end == CurrentEnd(current_start, delta, end_date_obj)
       IN IF current_end = OutOfRange
          THEN /\ pc' = "overflow_error"
               /\ UNCHANGED <<segments, current_start>>
          ELSE /\ segments' = Append(segments,
                                <<strftime(current_start), strftime(current_end)>>)
               /\ IF NextStart(current_end) = OutOfRange
                  THEN /\ pc' = "overflow_error"
                       /\ UNCHANGED current_start
                  ELSE /\ pc' = pc
                       /\ current_start' = NextStart(current_end)
    /\ UNCHANGED <<argVars, dataVars, start_date_obj, end_date_obj,
                   total_days, delta>>

\* lines 72, 77: the loop condition fails and the segments are returned
DivideReturn ==
    /\ pc = "divide_loop"
    /\ ~LoopCondition(current_start, end_date_obj)
    /\ pc' = AfterDivide(segments)
    /\ UNCHANGED <<argVars, dataVars, divideVars, segments>>

---------------------------------------------------------------------------
(* IEEE 754 binary64 arithmetic for the scores (numpy float64)             *)
(*                                                                         *)
(* A natural number is a little-endian sequence of 14-bit limbs.  A finite *)
(* positive double is [m |-> mantissa, e |-> exponent]: four limbs holding *)
(* a 53-bit mantissa in [2^52, 2^53) and the value m * 2^e.  Zero, inf and *)
(* nan have mantissa 0 and e = 0, 1, 2.  Scores are never negative.  The   *)
(* exponent is not limited: the values of a run stay far inside the        *)
(* range of normal doubles.                                                *)

LimbBits == 14
MantissaBits == 53

Pow2Table == <<1, 2, 4, 8, 16, 32, 64, 128, 256, 512, 1024, 2048, 4096, 8192,
               16384>>
Pow2(k) == Pow2Table[k + 1]
Base == Pow2(LimbBits)

NoLimbs == <<0, 0, 0, 0>>
FloatZero == [m |-> NoLimbs, e |-> 0]
FloatInf == [m |-> NoLimbs, e |-> 1]
FloatNaN == [m |-> NoLimbs, e |-> 2]

IsZero(a) == a = FloatZero
IsSpecial(a) == a.m = NoLimbs /\ a.e # 0

Limb(n, j) == IF j \in 1..Len(n) THEN n[j] ELSE 0

\* the number of bits of a limb
BitLen(x) == CHOOSE k \in 0..LimbBits :
                 /\ x < Pow2(k)
                 /\ k = 0 \/ x >= Pow2(k - 1)

\* the number of bits of a natural number
BigBitLen(n) ==
    LET nz == {j \in 1..Len(n) : n[j] # 0}
    IN IF nz = {} THEN 0
       ELSE LET t == CHOOSE j \in nz : \A k \in nz : k <= j
            IN (t - 1) * LimbBits + BitLen(n[t])

\* bit k of n, the lowest being bit 0
Bit(n, k) == (Limb(n, (k \div LimbBits) + 1) \div Pow2(k % LimbBits)) % 2

\* some bit of n below bit k is set
AnyBelow(n, k) ==
    \/ \E j \in 1..(k \div LimbBits) : Limb(n, j) # 0
    \/ Limb(n, (k \div LimbBits) + 1) % Pow2(k % LimbBits) # 0

\* the four limbs of n shifted right by s bits
ShiftRight(n, s) ==
    LET q == s \div LimbBits
        r == s % LimbBits
    IN [j \in 1..4 |->
          (Limb(n, q + j) \div Pow2(r))
          + (Limb(n, q + j + 1) % Pow2(r)) * Pow2(LimbBits - r)]

\* mantissa + 1; the top limb holds the carry out of 53 bits
Inc(m) ==
    LET s1 == m[1] + 1
        s2 == m[2] + (s1 \div Base)
        s3 == m[3] + (s2 \div Base)
        s4 == m[4] + (s3 \div Base)
    IN <<s1 % Base, s2 % Base, s3 % Base, s4>>

MinMantissa == <<0, 0, 0, Pow2(MantissaBits - 1 - 3 * LimbBits)>>

\* a mantissa after an increment, renormalised when it reached 2^53
Renormal(m, e) ==
    IF m[4] = Pow2(MantissaBits - 3 * LimbBits)
    THEN [m |-> MinMantissa, e |-> e + 1]
    ELSE [m |-> m, e |-> e]

\* the double nearest to (n + fraction) * 2^e, ties to even, for a natural
\* n of at least 54 bits; sticky says that the fraction is not 0
Round(n, sticky, e) ==
    LET s     == BigBitLen(n) - MantissaBits
        m     == ShiftRight(n, s)
        half  == Bit(n, s - 1) = 1
        below == sticky \/ AnyBelow(n, s - 1)
        up    == half /\ (below \/ m[1] % 2 = 1)
    IN IF up THEN Renormal(Inc(m), e + s) ELSE [m |-> m, e |-> e + s]

\* the double of an integer 0 <= n < 2^14 (exact)
Float(n) ==
    IF n = 0 THEN FloatZero
    ELSE Round(<<0, 0, 0, 0, n>>, FALSE, -(4 * LimbBits))

\* one term of column k of the schoolbook product
Term(a, b, j, k) ==
    IF (k + 1 - j) \in 1..4 THEN a[j] * b[k + 1 - j] ELSE 0

\* the limbs of a * b from column k on
RECURSIVE MulColumns(_, _, _, _)
MulColumns(a, b, k, carry) ==
    IF k > 7 THEN <<carry>>
    ELSE LET sum == carry + Term(a, b, 1, k) + Term(a, b, 2, k)
                          + Term(a, b, 3, k) + Term(a, b, 4, k)
         IN <<sum % Base>> \o MulColumns(a, b, k + 1, sum \div Base)

\* float64 * float64
FloatMul(a, b) ==
    IF a = FloatNaN \/ b = FloatNaN THEN FloatNaN
    ELSE IF a = FloatInf \/ b = FloatInf
    THEN (IF IsZero(a) \/ IsZero(b) THEN FloatNaN ELSE FloatInf)
    ELSE IF IsZero(a) \/ IsZero(b) THEN FloatZero
    ELSE Round(MulColumns(a.m, b.m, 1, 0), FALSE, a.e + b.e)

QuotientBits == 4 * LimbBits

\* a mantissa as two wide limbs, for the division
WideBase == Pow2(LimbBits - 1) * Base
WideLow(m) == m[1] + Base * (m[2] % Pow2(LimbBits - 1))
WideHigh(m) == (m[2] \div Pow2(LimbBits - 1)) + 2 * m[3] + 2 * Base * m[4]

\* LimbBits steps of long division: the next limb of the quotient of the
\* remainder (rh, rl) by the divisor (dh, dl), with the bits found so far in
\* q, and the remainder carried on; remainder < 2 * divisor all along
RECURSIVE DivideLimb(_, _, _, _, _, _)
DivideLimb(rh, rl, dh, dl, steps, q) ==
    IF steps = 0 THEN [q |-> q, rh |-> rh, rl |-> rl]
    ELSE IF rh > dh \/ (rh = dh /\ rl >= dl)
    THEN LET borrow == IF rl < dl THEN 1 ELSE 0
             sl     == 2 * (rl - dl + borrow * WideBase)
             sh     == 2 * (rh - dh - borrow)
         IN DivideLimb(sh + (sl \div WideBase), sl % WideBase, dh, dl,
                       steps - 1, 2 * q + 1)
    ELSE DivideLimb(2 * rh + ((2 * rl) \div WideBase), (2 * rl) % WideBase,
                    dh, dl, steps - 1, 2 * q)

\* long division of two mantissas: floor(a * 2^(QuotientBits - 1) / b), and
\* whether a remainder is left
LongDivide(a, b) ==
    LET dh == WideHigh(b)
        dl == WideLow(b)
        l4 == DivideLimb(WideHigh(a), WideLow(a), dh, dl, LimbBits, 0)
        l3 == DivideLimb(l4.rh, l4.rl, dh, dl, LimbBits, 0)
        l2 == DivideLimb(l3.rh, l3.rl, dh, dl, LimbBits, 0)
        l1 == DivideLimb(l2.rh, l2.rl, dh, dl, LimbBits, 0)
    IN [q |-> <<l1.q, l2.q, l3.q, l4.q>>,
        sticky |-> l1.rh # 0 \/ l1.rl # 0]

\* float64 / float64
FloatDiv(a, b) ==
    IF a = FloatNaN \/ b = FloatNaN THEN FloatNaN
    ELSE IF a = FloatInf
    THEN (IF b = FloatInf THEN FloatNaN ELSE FloatInf)
    ELSE IF b = FloatInf THEN FloatZero
    ELSE IF IsZero(b) THEN (IF IsZero(a) THEN FloatNaN ELSE FloatInf)
    ELSE IF IsZero(a) THEN FloatZero
    ELSE LET res == LongDivide(a.m, b.m)
         IN Round(res.q, res.sticky, a.e - b.e - (QuotientBits - 1))

---------------------------------------------------------------------------
(* pandas helpers                                                          *)

Keywords == <<"A", "B">>
KeywordSet == {Keywords[k] : k \in 1..Len(Keywords)}

\* DataFrame.empty: no rows (or no columns)
Empty(frame) == Len(frame.index) = 0 \/ DOMAIN frame.cols = {}

\* series.iloc[0] and series.iloc[-1]
First(col) == col[1]
Last(col) == col[Len(col)]

RECURSIVE RowCount(_)
RowCount(frames) ==
    IF frames = <<>> THEN 0
    ELSE Len(Head(frames).index) + RowCount(Tail(frames))

RECURSIVE ConcatIndex(_)
ConcatIndex(frames) ==
    IF frames = <<>> THEN <<>>
    ELSE Head(frames).index \o ConcatIndex(Tail(frames))

RECURSIVE ConcatColumn(_, _)
ConcatColumn(frames, kw) ==
    IF frames = <<>> THEN <<>>
    ELSE Head(frames).cols[kw] \o ConcatColumn(Tail(frames), kw)

\* pd.concat(trends_data): every frame holds every keyword column by then
Concat(frames) ==
    [index |-> ConcatIndex(frames),
     cols  |-> [kw \in KeywordSet |-> ConcatColumn(frames, kw)]]

---------------------------------------------------------------------------
(* determine_overall_granularity_from_data                                 *)

\* data.index.to_series().diff().dropna().dt.days
DateDiffs(index) ==
    [j \in 1..(Len(index) - 1) |-> index[j + 1] - index[j]]

Count(diffs, g) == Cardinality({j \in DOMAIN diffs : diffs[j] = g})

\* date_diffs.mode(): the most frequent values, ascending
ModeSet(diffs) ==
    {diffs[j] : j \in {j \in DOMAIN diffs :
        \A k \in DOMAIN diffs : Count(diffs, diffs[k]) <= Count(diffs, diffs[j])}}

SetMin(S) == CHOOSE x \in S : \A y \in S : x <= y

\* date_diffs.mode().iloc[0]
CommonDiff(diffs) == SetMin(ModeSet(diffs))

\* mutant: a 7-day gap no longer counts as weekly
ClassifyStrict(common_diff) ==
    IF common_diff = 1 THEN "daily"
    ELSE IF common_diff < 7 THEN "weekly"
    ELSE "monthly"

Classify(common_diff) ==
    IF common_diff = 1 THEN "daily"
    ELSE IF common_diff <= 7 THEN "weekly"
    ELSE "monthly"

\* the label, or "IndexError" when the mode is empty (fewer than 2 timestamps)
determine_overall_granularity_from_data(data) ==
    LET date_diffs == DateDiffs(data.index)
    IN IF Len(date_diffs) = 0 THEN "IndexError"
       ELSE Classify(CommonDiff(date_diffs))

\* a direct call of the inference on a frame
Determine ==
    /\ pc = "granularity_entry"
    /\ overall_granularity' = determine_overall_granularity_from_data(combined_data)
    /\ pc' = IF overall_granularity' = "IndexError" THEN "error" ELSE "returned"
    /\ UNCHANGED <<argVars, divideVars, segments, trends_data, i, combined_data,
                   raw, missing>>

---------------------------------------------------------------------------
(* get_data                                                                *)

\* pytrends.interest_over_time() for one segment: n rows from the segment's
\* first day on, one column per keyword the source has data for
interest_over_time(time_range, n, vals) ==
    [index |-> [r \in 1..n |-> strptime(time_range[1]) + (r - 1)],
     cols  |-> [kw \in DOMAIN vals |-> [r \in 1..n |-> Float(vals[kw][r])]]]

\* mutant: the missing column is filled with the top score
FillColumnFull(n) == [r \in 1..n |-> Float(100)]

\* segment_data[keyword] = 0: a column of zeros over the frame's rows
FillColumn(n) == [r \in 1..n |-> Float(0)]

\* lines 123-125: add every requested keyword the result lacks
ZeroFill(frame) ==
    [index |-> frame.index,
     cols  |-> [kw \in (DOMAIN frame.cols) \cup KeywordSet |->
                  IF kw \in DOMAIN frame.cols THEN frame.cols[kw]
                  ELSE FillColumn(Len(frame.index))]]

\* mutant: the head is read at the current segment's last row
mean_current_start_last(td, idx, kw) ==
    IF ~Empty(td[idx + 1]) THEN Last(td[idx + 1].cols[kw]) ELSE Float(0)

\* lines 137-140 (idx is Python's i; trends_data[i] is td[idx + 1] here)
mean_current_start(td, idx, kw) ==
    IF ~Empty(td[idx + 1]) THEN First(td[idx + 1].cols[kw]) ELSE Float(0)

\* lines 143-146 (trends_data[i-1] is td[idx] here)
mean_previous_end(td, idx, kw) ==
    IF ~Empty(td[idx]) THEN Last(td[idx].cols[kw]) ELSE Float(0)

\* mutant: a zero head also falls back to the identity factor
scale_factor_keep(head, tail) ==
    IF ~IsZero(tail) /\ ~IsZero(head) THEN FloatDiv(head, tail) ELSE Float(1)

\* line 148
scale_factor(head, tail) ==
    IF ~IsZero(tail) THEN FloatDiv(head, tail) ELSE Float(1)

\* series *= scale_factor
ScaleColumn(col, s) == [r \in DOMAIN col |-> FloatMul(col[r], s)]

\* mutant: the factor is carried back to every earlier segment
TargetsCascade(idx) == 1..idx

\* the frames line 149 multiplies in iteration idx: trends_data[i-1] alone
Targets(idx) == {idx}

\* lines 136-149 for one keyword
RescaleKeyword(td, idx, kw) ==
    LET s == scale_factor(mean_current_start(td, idx, kw),
                          mean_previous_end(td, idx, kw))
    IN [j \in DOMAIN td |->
          IF j \in Targets(idx)
          THEN [td[j] EXCEPT !.cols[kw] = ScaleColumn(@, s)]
          ELSE td[j]]

\* line 135: the keywords in list order, from the k-th on
RECURSIVE RescaleKeywords(_, _, _)
RescaleKeywords(td, idx, k) ==
    IF k > Len(Keywords) THEN td
    ELSE RescaleKeywords(RescaleKeyword(td, idx, Keywords[k]), idx, k + 1)

\* lines 118-131: fetch one segment and zero-fill it
Fetch ==
    /\ pc = "fetch"
    /\ Len(trends_data) < Len(segments)
    /\ \E n \in 0..Min(MaxRows, MaxTotalRows - RowCount(trends_data)) :
       \E present \in SUBSET KeywordSet :
       \E vals \in [present -> [1..n -> Scores]] :
          /\ n = 0 => present = {}
          /\ n * Cardinality(present) <= MaxFrameCells
          /\ LET time_range == segments[Len(trends_data) + 1]
                 segment_data == ZeroFill(interest_over_time(time_range, n, vals))
             IN /\ trends_data' = Append(trends_data, segment_data)
                /\ raw' = Append(raw, segment_data)
                /\ missing' = Append(missing, KeywordSet \ present)
    /\ pc' = IF Len(trends_data') = Len(segments) THEN "rescale" ELSE "fetch"
    /\ i' = 1
    /\ UNCHANGED <<argVars, divideVars, segments, combined_data,
                   overall_granularity>>

\* lines 134-149: one iteration of the rescale loop, i in range(1, len(segments))
Rescale ==
    /\ pc = "rescale"
    /\ i < Len(segments)
    /\ trends_data' = RescaleKeywords(trends_data, i, 1)
    /\ i' = i + 1
    /\ UNCHANGED <<pc, argVars, divideVars, segments, combined_data,
                   overall_granularity, raw, missing>>

\* lines 151-156: concatenate, infer the granularity, return
Finish ==
    /\ pc = "rescale"
    /\ ~(i < Len(segments))
    /\ IF Len(trends_data) = 0
       THEN /\ pc' = "error"
            /\ UNCHANGED <<combined_data, overall_granularity>>
       ELSE /\ combined_data' = Concat(trends_data)
            /\ overall_granularity' =
                   determine_overall_granularity_from_data(combined_data')
            /\ pc' = IF overall_granularity' = "IndexError"
                     THEN "error" ELSE "returned"
    /\ UNCHANGED <<argVars, divideVars, segments, trends_data, i, raw, missing>>

---------------------------------------------------------------------------
(* Specifications                                                          *)

NoFrame == [index |-> <<>>, cols |-> <<>>]

InitLocals ==
    /\ start_date_obj = 0
    /\ end_date_obj = 0
    /\ total_days = 0
    /\ delta = 0
    /\ current_start = 0
    /\ segments = <<>>
    /\ trends_data = <<>>
    /\ i = 1
    /\ overall_granularity = ""
    /\ raw = <<>>
    /\ missing = <<>>

\* the script: get_data(keywords, timeframe_range, geo, youtube, granularity)
Init ==
    /\ caller = "get_data"
    /\ pc = "divide_entry"
    /\ start_date = Date(2015, 1, 1)
    /\ \E span \in GetDataSpans :
          end_date = DateOf(strptime(start_date) + span)
    /\ granularity \in Granularities
    /\ num_segments = 0
    /\ combined_data = NoFrame
    /\ InitLocals

Next == DivideEntry \/ DivideLoop \/ DivideReturn \/ Fetch \/ Rescale \/ Finish

Spec == Init /\ [][Next]_vars

\* the dates of the direct calls, written 'YYYY-MM-DD'
StartDates == {Date(t[1], t[2], t[3]) : t \in StartDays}

\* dates of the format written with other decimal digits: the year in
\* fullwidth digits, the second digit of the day in Arabic-Indic digits
UnicodeDates ==
    {PaddedIn(2015, 4, FullwidthZero) \o SubSeq(Date(2015, 1, 1), 5, 10),
     SubSeq(Date(2015, 1, 25), 1, 9) \o PaddedIn(5, 1, ArabicIndicZero)}

\* strings that are not of the format: a year of three digits, as strftime
\* writes it, a month 13, and a month in fullwidth digits
MalformedDates ==
    {strftime(ymd2ord(999, 12, 30)),
     Padded(2015, 4) \o <<Hyphen>> \o Padded(13, 2) \o <<Hyphen>> \o Padded(1, 2),
     Padded(2015, 4) \o <<Hyphen>> \o PaddedIn(1, 2, FullwidthZero)
         \o <<Hyphen>> \o Padded(1, 2)}

\* the arguments of a call with two dates of the format
DateArguments ==
    /\ start_date \in StartDates \cup UnicodeDates
    /\ \E span \in (0..MaxSpan) \cup LongSpans :
          /\ strptime(start_date) + span <= MaxOrdinal
          /\ end_date = DateOf(strptime(start_date) + span)

\* the arguments of a call with a start that is not a date of the format
MalformedArguments ==
    /\ start_date \in MalformedDates
    /\ end_date = Date(2015, 1, 1)

\* the rest of the state at a direct call
DirectCall ==
    /\ caller = "divide"
    /\ pc = "divide_entry"
    /\ granularity \in Granularities
    /\ num_segments \in 0..MaxNumSegments
    /\ combined_data = NoFrame
    /\ InitLocals

\* a direct call divide_timeframe_range(start, end, granularity, num_segments)
InitDivide == (DateArguments \/ MalformedArguments) /\ DirectCall

\* a direct call with two dates of the format
InitDivideDates == DateArguments /\ DirectCall

NextDivide == DivideEntry \/ DivideLoop \/ DivideReturn

SpecDivide == InitDivide /\ [][NextDivide]_vars

\* a call with two dates of the format runs to completion: nothing else is
\* scheduled
FairSpecDivide ==
    InitDivideDates /\ [][NextDivide]_vars /\ WF_vars(NextDivide)

RECURSIVE IndexFrom(_, _)
IndexFrom(first, gaps) ==
    IF gaps = <<>> THEN <<first>>
    ELSE <<first>> \o IndexFrom(first + Head(gaps), Tail(gaps))

\* a direct call determine_overall_granularity_from_data(data)
InitGranularity ==
    /\ caller = "granularity"
    /\ pc = "granularity_entry"
    /\ start_date = Date(2015, 1, 1)
    /\ end_date = Date(2015, 1, 1)
    /\ granularity = "d"
    /\ num_segments = 0
    /\ \E n \in 0..MaxGaps : \E gaps \in [1..n -> GapValues] :
          combined_data =
              [index |-> IndexFrom(strptime(start_date), gaps),
               cols  |-> [kw \in KeywordSet |-> FillColumn(n + 1)]]
    /\ InitLocals

NextGranularity == Determine

SpecGranularity == InitGranularity /\ [][NextGranularity]_vars

---------------------------------------------------------------------------
(* Properties of divide_timeframe_range                                    *)

DivideReturned == caller = "divide" /\ pc = "returned"

SegStart(j) == strptime(segments[j][1])
SegEnd(j) == strptime(segments[j][2])

\* C1: for start <= end the returned segments are ascending, each starts one
\* day after the previous one ends, the first starts at start and the last
\* ends at end, so that they cover [start, end] exactly.
C1_Coverage ==
    DivideReturned =>
        /\ Len(segments) >= 1
        /\ segments[1][1] = start_date
        /\ segments[Len(segments)][2] = end_date
        /\ \A j \in 1..Len(segments) : SegStart(j) <= SegEnd(j)
        /\ \A j \in 1..(Len(segments) - 1) : SegStart(j + 1) = SegEnd(j) + 1

\* C4: for start < end and an explicit segment count N >= 1 exactly N
\* segments are returned.
C4_SegmentCount ==
    (DivideReturned /\ num_segments >= 1
        /\ strptime(start_date) < strptime(end_date))
    => Len(segments) = num_segments

\* C5: when start = end exactly one segment (start, end) is returned, for
\* every granularity and with or without a segment count.
C5_Degenerate ==
    (DivideReturned /\ start_date = end_date)
    => segments = << <<start_date, end_date>> >>

LoopEntered == num_segments # 0 \/ granularity \in {"d", "w"}

\* C10: the segmentation loop terminates: every iteration strictly increases
\* the running start, a call with two dates of the format ends (it returns,
\* or raises OverflowError where a date after 9999-12-31 is computed), and
\* when it has returned through the loop the running start has reached or
\* passed the overall end.
C10_Termination ==
    /\ [][(pc = "divide_loop" /\ pc' = "divide_loop")
            => current_start' > current_start]_vars
    /\ [](DivideReturned /\ LoopEntered => current_start >= end_date_obj)
    /\ <>(pc \in {"returned", "overflow_error"})

\* a call with more segments asked for than days in the range (delta = 0)
\* has gone round the loop at least twice and returned
C10_Witness ==
    /\ DivideReturned
    /\ num_segments > total_days
    /\ total_days >= 2
    /\ delta = 0
    /\ Len(segments) >= 2

---------------------------------------------------------------------------
(* Properties of determine_overall_granularity_from_data                   *)

Gap(j) == combined_data.index[j + 1] - combined_data.index[j]
GapCount == Len(combined_data.index) - 1
Freq(g) == Cardinality({j \in 1..GapCount : Gap(j) = g})

\* C7: with at least 2 timestamps the label is fixed by the most frequent
\* day gap, the smallest one among equally frequent gaps: daily for 1,
\* weekly for any other gap up to 7, monthly otherwise.
C7_Granularity ==
    (caller = "granularity" /\ pc \in {"returned", "error"} /\ GapCount >= 1)
    => /\ pc = "returned"
       /\ \E j \in 1..GapCount :
            /\ \A k \in 1..GapCount :
                  \/ Freq(Gap(k)) < Freq(Gap(j))
                  \/ Freq(Gap(k)) = Freq(Gap(j)) /\ Gap(j) <= Gap(k)
            /\ overall_granularity =
                  IF Gap(j) = 1 THEN "daily"
                  ELSE IF Gap(j) > 7 THEN "monthly"
                  ELSE "weekly"

\* a 7-day gap and a 30-day gap once each: the tie goes to 7, weekly
C7_Witness ==
    /\ caller = "granularity"
    /\ pc = "returned"
    /\ GapCount = 2
    /\ {Gap(1), Gap(2)} = {7, 30}
    /\ overall_granularity = "weekly"

---------------------------------------------------------------------------
(* Properties of get_data                                                  *)

\* the rescale loop has finished
RescaleDone ==
    /\ caller = "get_data"
    /\ \/ pc = "rescale" /\ ~(i < Len(segments))
       \/ pc \in {"returned", "error"}

Rows(j) == Len(raw[j].index)
Present(j, kw) == kw \notin missing[j] /\ Rows(j) >= 1
RawHead(j, kw) == raw[j].cols[kw][1]
RawTail(j, kw) == raw[j].cols[kw][Rows(j)]
Boundaries == 1..(Len(trends_data) - 1)

\* C2 as claimed: after the rescale loop, at every boundary and for every
\* keyword present in both segments, the rescaled last value of segment j
\* equals the fetched first value of segment j+1.
C2_BoundaryRaw ==
    RescaleDone =>
        \A j \in Boundaries : \A kw \in KeywordSet :
            (Present(j, kw) /\ Present(j + 1, kw))
            => Last(trends_data[j].cols[kw]) = RawHead(j + 1, kw)

\* mantissa - 1, for a mantissa > 0
Dec(m) ==
    LET b1 == IF m[1] = 0 THEN 1 ELSE 0
        b2 == IF b1 = 1 /\ m[2] = 0 THEN 1 ELSE 0
        b3 == IF b2 = 1 /\ m[3] = 0 THEN 1 ELSE 0
    IN <<IF b1 = 1 THEN Base - 1 ELSE m[1] - 1,
         IF b1 = 0 THEN m[2] ELSE IF b2 = 1 THEN Base - 1 ELSE m[2] - 1,
         IF b2 = 0 THEN m[3] ELSE IF b3 = 1 THEN Base - 1 ELSE m[3] - 1,
         m[4] - b3>>

MaxMantissa == <<Base - 1, Base - 1, Base - 1,
                 Pow2(MantissaBits - 3 * LimbBits) - 1>>

\* the next double above and below a positive double
FloatSucc(a) == Renormal(Inc(a.m), a.e)
FloatPred(a) ==
    IF a.m = MinMantissa THEN [m |-> MaxMantissa, e |-> a.e - 1]
    ELSE [m |-> Dec(a.m), e |-> a.e]

\* the doubles within one unit in the last place of a double a >= 0
WithinOneUlp(a) ==
    IF IsZero(a) THEN {FloatZero} ELSE {FloatPred(a), a, FloatSucc(a)}

\* C2 as amended: after the rescale loop, at every boundary and for every
\* keyword present in both segments, where the fetched last value of
\* segment j is not 0, the rescaled last value of segment j is within one
\* unit in the last place of the fetched first value of segment j+1.
C2_BoundaryRawNonzeroTail ==
    RescaleDone =>
        \A j \in Boundaries : \A kw \in KeywordSet :
            (Present(j, kw) /\ Present(j + 1, kw) /\ ~IsZero(RawTail(j, kw)))
            => Last(trends_data[j].cols[kw]) \in WithinOneUlp(RawHead(j + 1, kw))

\* three segments, a keyword present in all: both boundaries have a head
\* that differs from the non-zero tail before it
C2_Witness ==
    /\ RescaleDone
    /\ Len(trends_data) = 3
    /\ \E kw \in KeywordSet :
         /\ \A j \in 1..3 : Present(j, kw)
         /\ \A j \in 1..2 :
              /\ ~IsZero(RawTail(j, kw))
              /\ ~IsZero(RawHead(j + 1, kw))
              /\ RawTail(j, kw) # RawHead(j + 1, kw)

\* C3: in the final state, for adjacent non-empty segments and every
\* keyword, segment j's last value equals segment j+1's first value.
C3_FinalContinuity ==
    RescaleDone =>
        \A j \in Boundaries : \A kw \in KeywordSet :
            (Rows(j) >= 1 /\ Rows(j + 1) >= 1)
            => Last(trends_data[j].cols[kw]) = First(trends_data[j + 1].cols[kw])

Offset(j) == RowCount(SubSeq(raw, 1, j - 1))

\* C6: a keyword absent from a fetched segment's result is a column of the
\* returned combined series and is 0 at every timestamp of that segment.
C6_ZeroFill ==
    (caller = "get_data" /\ pc = "returned") =>
        \A j \in 1..Len(missing) : \A kw \in missing[j] :
            /\ kw \in DOMAIN combined_data.cols
            /\ Len(combined_data.cols[kw]) = Len(combined_data.index)
            /\ \A r \in 1..Rows(j) :
                 /\ combined_data.index[Offset(j) + r] = raw[j].index[r]
                 /\ combined_data.cols[kw][Offset(j) + r] = FloatZero

\* a keyword is absent from a segment that has rows, and the next segment
\* starts with a non-zero value for it
C6_Witness ==
    /\ caller = "get_data"
    /\ pc = "returned"
    /\ \E j \in Boundaries : \E kw \in missing[j] :
         /\ Rows(j) >= 1
         /\ Present(j + 1, kw)
         /\ ~IsZero(RawHead(j + 1, kw))

\* head / tail of the fetched values at the boundary j / j+1, 1 for tail 0
HopFactor(j, kw) ==
    LET head == IF Rows(j + 1) = 0 THEN FloatZero ELSE RawHead(j + 1, kw)
        tail == IF Rows(j) = 0 THEN FloatZero ELSE RawTail(j, kw)
    IN IF tail = FloatZero THEN Float(1) ELSE FloatDiv(head, tail)

\* C8: the rescale is single-hop: the last segment keeps its fetched values
\* and every other segment j is its fetched values times one factor, which
\* is computed from the fetched head of segment j+1 and the fetched tail of
\* segment j of the same keyword.
C8_SingleHop ==
    RescaleDone =>
        \A j \in 1..Len(trends_data) : \A kw \in KeywordSet :
            /\ trends_data[j].index = raw[j].index
            /\ trends_data[j].cols[kw] =
                 IF j = Len(trends_data) THEN raw[j].cols[kw]
                 ELSE LET factor == HopFactor(j, kw)
                      IN [r \in 1..Rows(j) |->
                            FloatMul(raw[j].cols[kw][r], factor)]

\* three segments whose two boundaries both rescale a keyword by a factor
\* other than 0 and 1
C8_Witness ==
    /\ RescaleDone
    /\ Len(trends_data) = 3
    /\ \E kw \in KeywordSet : \A j \in 1..2 :
         /\ Rows(j) >= 1
         /\ HopFactor(j, kw) \notin {FloatZero, Float(1)}

\* C9: where segment j or segment j+1 is empty, or the fetched last value
\* of segment j is 0, segment j's values are left exactly as fetched.
C9_IdentityFactor ==
    RescaleDone =>
        \A j \in Boundaries : \A kw \in KeywordSet :
            (Rows(j) = 0 \/ Rows(j + 1) = 0 \/ IsZero(RawTail(j, kw)))
            => trends_data[j].cols[kw] = raw[j].cols[kw]

\* the boundary j / j+1 where the keyword's fetched tail in segment j is not
\* 0 and its head in segment j+1 is 0: a real 0 score, a zero-filled missing
\* keyword, or an empty segment j+1
ZeroHead(j, kw) ==
    /\ Rows(j) >= 1
    /\ RawTail(j, kw) # FloatZero
    /\ \/ Rows(j + 1) = 0
       \/ RawHead(j + 1, kw) = FloatZero

\* C11: where the head of segment j+1 is 0 and the fetched tail of segment j
\* is not, every value of the keyword in segment j is 0 after the rescale
\* loop and in the combined series that get_data returns.
C11_ZeroHeadWipes ==
    RescaleDone =>
        \A j \in Boundaries : \A kw \in KeywordSet :
            ZeroHead(j, kw) =>
                \A r \in 1..Rows(j) :
                    /\ trends_data[j].cols[kw][r] = FloatZero
                    /\ pc = "returned" =>
                         combined_data.cols[kw][Offset(j) + r] = FloatZero

\* get_data has returned a series in which a fetched non-zero segment was
\* wiped by a zero head
C11_Witness ==
    /\ caller = "get_data"
    /\ pc = "returned"
    /\ \E j \in Boundaries : \E kw \in KeywordSet :
         /\ ZeroHead(j, kw)
         /\ kw \notin missing[j]

=============================================================================
